---- MODULE Spec2Model ----
(***************************************************************************)
(* A model of the Markdown tokenizer of src/src/markdown.rs.                *)
(*                                                                         *)
(* MarkdownParser is a recursive-descent scanner over a character vector.  *)
(* The recursion of get_styled_text_token is made explicit as a sequence   *)
(* of activation records (frames); every action is one iteration of one of *)
(* the scan loops of the source, or one call/return.  Offsets are 0-based  *)
(* as in the source: chars[offset] of the source is chars[offset + 1].     *)
(***************************************************************************)
EXTENDS Integers, Sequences, FiniteSets, TLC

VARIABLES
    chars,      \* MarkdownParser.chars: the input, one string per character
    offset,     \* MarkdownParser.offset: the read cursor
    stack,      \* MarkdownParser.stack: the open markers, top last
    result,     \* parse's local `result`: the block tokens pushed so far
    frames,     \* the call stack below parse: parse_text_tokens and
                \* get_styled_text_token activations, innermost last
    status,     \* "running", "returned", or the panic that ended the parse
    closed,     \* history: one record per run recognized as a close
    idle        \* history: scan-loop iterations since the cursor last moved

vars == <<chars, offset, stack, result, frames, status, closed, idle>>

\* ------------------------------------------------------------------ bounds

\* Longest input of the exhaustive family (every string over Alphabet).
MaxLen == 5
\* Longest `#` run of the header family.
MaxHashes == 8
\* Iterations of a scan loop that does not move the cursor that are followed
\* before the model stops following it (the source would go on until memory
\* is exhausted).
MaxIdle == 3
\* Most segments of a body of the sibling family.
MaxSegs == 3

\* --------------------------------------------------------------- characters

Hash == "#"
Space == " "
NewLineCh == "\n"
Star == "*"
\* the backtick (a string of the module cannot hold the character itself)
Tick == "BACKTICK"

Alphabet == {Hash, Space, NewLineCh, Star, Tick, "a"}

chars_len == Len(chars)

\* ------------------------------------------------------------------- tokens

Text(s) == [k |-> "Text", s |-> s, c |-> <<>>]
Italic(c) == [k |-> "Italic", s |-> <<>>, c |-> c]
Bold(c) == [k |-> "Bold", s |-> <<>>, c |-> c]
BoldItalic(c) == [k |-> "BoldItalic", s |-> <<>>, c |-> c]
Code(c) == [k |-> "Code", s |-> <<>>, c |-> c]

Header(level, tokens) == [k |-> "Header", level |-> level, tokens |-> tokens]
NewLine == [k |-> "NewLine", level |-> "", tokens |-> <<>>]
Paragraph(tokens) == [k |-> "Paragraph", level |-> "", tokens |-> tokens]

\* ----------------------------------------------------------- pure functions

\* the run counted without its limit
RECURSIVE count_run_unlimited(_, _, _, _)
count_run_unlimited(cs, off, ch, limit) ==
    IF off < Len(cs) /\ cs[off + 1] = ch
    THEN 1 + count_run_unlimited(cs, off + 1, ch, limit)
    ELSE 0

\* `while off < len && n < limit && chars[off] == ch { n += 1; off += 1 }`
RECURSIVE count_run(_, _, _, _)
count_run(cs, off, ch, limit) ==
    IF off < Len(cs) /\ limit > 0 /\ cs[off + 1] = ch
    THEN 1 + count_run(cs, off + 1, ch, limit - 1)
    ELSE 0

\* n copies of ch
run_of(ch, n) == [i \in 1..n |-> ch]

\* header_level with the fall-through arm starting over at One
header_level_wrapping(header_ch_count) ==
    CASE header_ch_count = 1 -> "One"
      [] header_ch_count = 2 -> "Two"
      [] header_ch_count = 3 -> "Three"
      [] header_ch_count = 4 -> "Four"
      [] header_ch_count = 5 -> "Five"
      [] header_ch_count = 6 -> "Six"
      [] OTHER -> "One"

\* the match of parse_header_or_text
header_level(header_ch_count) ==
    CASE header_ch_count = 1 -> "One"
      [] header_ch_count = 2 -> "Two"
      [] header_ch_count = 3 -> "Three"
      [] header_ch_count = 4 -> "Four"
      [] header_ch_count = 5 -> "Five"
      [] header_ch_count = 6 -> "Six"
      [] OTHER -> "Six"

\* parse_text's scan without the stop at `\n`
RECURSIVE text_len_through_newline(_, _)
text_len_through_newline(cs, off) ==
    IF off < Len(cs) /\ cs[off + 1] \notin {Tick, Star}
    THEN 1 + text_len_through_newline(cs, off + 1)
    ELSE 0

\* the space after the `#` run, and every space that follows it
RECURSIVE skip_separator_greedy(_, _)
skip_separator_greedy(cs, off) ==
    IF off < Len(cs) /\ cs[off + 1] = Space
    THEN skip_separator_greedy(cs, off + 1)
    ELSE off

\* parse_header_or_text: `self.offset += 1` over the space after the `#` run
skip_separator(cs, off) == off + 1

\* parse_text's scan: the characters up to the next backtick, `*` or `\n`
RECURSIVE text_len(_, _)
text_len(cs, off) ==
    IF off < Len(cs) /\ cs[off + 1] \notin {Tick, Star, NewLineCh}
    THEN 1 + text_len(cs, off + 1)
    ELSE 0

\* parse_text losing the character it starts at
parse_text_dropping(cs, off) ==
    LET n == text_len(cs, off)
    IN [token |-> Text(SubSeq(cs, off + 2, off + n)), offset |-> off + n]

parse_text(cs, off) ==
    LET n == text_len(cs, off)
    IN [token |-> Text(SubSeq(cs, off + 1, off + n)), offset |-> off + n]

\* compact_text_token with the arms of `*` and `**` exchanged
compact_text_token_swapped(spec_ch_str, tokens) ==
    CASE spec_ch_str = <<Star>> -> Bold(tokens)
      [] spec_ch_str = <<Star, Star>> -> Italic(tokens)
      [] spec_ch_str = <<Star, Star, Star>> -> BoldItalic(tokens)
      [] spec_ch_str \in {<<Tick>>, <<Tick, Tick>>, <<Tick, Tick, Tick>>} -> Code(tokens)
      [] OTHER -> [k |-> "Invalid", s |-> spec_ch_str, c |-> tokens]

\* the match of compact_text_token; "Invalid" stands for its panic
compact_text_token(spec_ch_str, tokens) ==
    CASE spec_ch_str = <<Star>> -> Italic(tokens)
      [] spec_ch_str = <<Star, Star>> -> Bold(tokens)
      [] spec_ch_str = <<Star, Star, Star>> -> BoldItalic(tokens)
      [] spec_ch_str \in {<<Tick>>, <<Tick, Tick>>, <<Tick, Tick, Tick>>} -> Code(tokens)
      [] OTHER -> [k |-> "Invalid", s |-> spec_ch_str, c |-> tokens]

\* `self.stack.clone().into_iter().rev().collect()`: the markers, top first
RECURSIVE stack_str(_)
stack_str(stk) ==
    IF stk = <<>> THEN <<>>
    ELSE stk[Len(stk)] \o stack_str(SubSeq(stk, 1, Len(stk) - 1))

\* is_styled_text_token_closure without the comparison against stack_str
is_styled_text_token_closure_top_only(cs, off, stk) ==
    LET special_ch == cs[off + 1]
        read_chs == run_of(special_ch, count_run(cs, off, special_ch, Len(cs)))
    IN stk[Len(stk)] = read_chs

\* is_styled_text_token_closure accepting any run that starts with the top
\* marker instead of the run that equals it
is_styled_text_token_closure_prefix(cs, off, stk) ==
    LET special_ch == cs[off + 1]
        read_chs == run_of(special_ch, count_run(cs, off, special_ch, Len(cs)))
        last == stk[Len(stk)]
    IN IF Len(last) <= Len(read_chs) /\ SubSeq(read_chs, 1, Len(last)) = last
       THEN TRUE
       ELSE read_chs = stack_str(stk)

\* every run of the frame's character taken as a close
is_styled_text_token_closure_always(cs, off, stk) == TRUE

\* the whole run at the cursor (not capped at 3) against the top marker and
\* against the reversed concatenation of the stack
is_styled_text_token_closure(cs, off, stk) ==
    LET special_ch == cs[off + 1]
        read_chs == run_of(special_ch, count_run(cs, off, special_ch, Len(cs)))
    IN IF stk[Len(stk)] = read_chs THEN TRUE ELSE read_chs = stack_str(stk)

\* ------------------------------------------------------------------- inputs

RECURSIVE Strings(_, _)
Strings(S, n) ==
    IF n = 0 THEN {<<>>}
    ELSE LET shorter == Strings(S, n - 1)
         IN shorter \cup {Append(s, x) : s \in {t \in shorter : Len(t) = n - 1}, x \in S}

\* every string over Alphabet of at most MaxLen characters
GeneralInputs == Strings(Alphabet, MaxLen)

\* the delimiter runs: one to three `*` or backticks
Runs == {run_of(ch, n) : ch \in {Star, Tick}, n \in 1..3}

\* sample plain texts (no `*`, backtick or `\n`)
PlainTexts == {<<"a">>, <<"b", " ">>, <<" ", "c">>}

HeaderStart == <<Hash, Space>>

\* a `#` run of 1..MaxHashes, a space, a plain body
HeaderInputs ==
    {run_of(Hash, k) \o <<Space>> \o b :
        k \in 1..MaxHashes,
        b \in {<<"a">>, <<Space, "a">>, <<"a", Space, Hash, "b">>, <<Space, Space>>}}

\* r1 A r2 B r2 C r1: a style opened and closed inside another
NestedInputs ==
    {HeaderStart \o r1 \o A \o r2 \o B \o r2 \o C \o r1 :
        r1 \in Runs, r2 \in Runs, A \in PlainTexts, B \in PlainTexts, C \in PlainTexts}

\* r1 X r2 Y r3 Z: two styles opened, one closing run (`*X**Y***Z` among them)
DoubleCloseInputs ==
    {HeaderStart \o r1 \o X \o r2 \o Y \o r3 \o Z :
        r1 \in {<<Star>>, <<Tick>>}, r2 \in {<<Star, Star>>, <<Star>>},
        r3 \in {<<Star, Star, Star>>, <<Star, Star>>},
        X \in PlainTexts, Y \in PlainTexts, Z \in PlainTexts \cup {<<>>}}

\* P r T: an opening run that nothing closes; r1 T1 r2 T2: two of them
UnclosedInputs ==
    {HeaderStart \o P \o r \o T :
        P \in PlainTexts \cup {<<>>}, r \in Runs, T \in PlainTexts \cup {<<>>}}
    \cup
    {HeaderStart \o r1 \o T1 \o r2 \o T2 :
        r1 \in Runs, r2 \in Runs, T1 \in PlainTexts, T2 \in PlainTexts}

\* the segments of the sibling family: a plain text, or r T r
Segments ==
    {<<Space>>, <<"b">>} \cup {r \o <<"a">> \o r : r \in Runs}

RECURSIVE SegmentBodies(_)
SegmentBodies(n) ==
    IF n = 0 THEN {<<>>}
    ELSE LET shorter == SegmentBodies(n - 1)
         IN shorter \cup {b \o g : b \in shorter, g \in Segments}

\* at most MaxSegs segments after `## `
SiblingInputs == {<<Hash>> \o HeaderStart \o b : b \in SegmentBodies(MaxSegs)}

\* two header lines with one or two `\n` between and after them
TwoLineInputs ==
    {l1 \o n1 \o l2 \o n2 :
        l1 \in {<<Hash, Space, "a">>, <<Hash, Hash, Space, Star, "b", Star>>},
        n1 \in {<<NewLineCh>>, <<NewLineCh, NewLineCh>>},
        l2 \in {<<Hash, Space, "c">>, <<Hash, Space, Tick, "d">>, <<Hash, Hash>>},
        n2 \in {<<>>, <<NewLineCh>>}}

\* r0 P * X ** Y *** Z [r0]: `*` and `**` opened inside an open backtick span,
\* then a run of three `*`
EnclosedDoubleCloseInputs ==
    {HeaderStart \o r0 \o P \o <<Star>> \o X \o <<Star, Star>> \o Y
                \o <<Star, Star, Star>> \o Z \o e :
        r0 \in {<<Tick>>, <<Tick, Tick>>}, P \in {<<>>, <<"p">>},
        X \in {<<"a">>}, Y \in {<<"b">>}, Z \in {<<>>, <<"c">>},
        e \in {<<>>, <<Tick>>}}

Inputs ==
    GeneralInputs \cup HeaderInputs \cup NestedInputs \cup DoubleCloseInputs
        \cup UnclosedInputs \cup SiblingInputs \cup TwoLineInputs
        \cup EnclosedDoubleCloseInputs

\* --------------------------------------------------------------------- Init

\* MarkdownParser::new, and parse's empty `result`
Init ==
    /\ chars \in Inputs
    /\ offset = 0
    /\ stack = <<>>
    /\ result = <<>>
    /\ frames = <<>>
    /\ status = "running"
    /\ closed = <<>>
    /\ idle = 0

\* ------------------------------------------------------------------ frames

PttFrame(level) ==
    [fn |-> "parse_text_tokens", level |-> level, spec_ch |-> "", tokens |-> <<>>]
GstFrame(spec_ch) ==
    [fn |-> "get_styled_text_token", level |-> "", spec_ch |-> spec_ch, tokens |-> <<>>]

Top == frames[Len(frames)]
InParse == status = "running" /\ frames = <<>>
InPtt == status = "running" /\ frames # <<>> /\ Top.fn = "parse_text_tokens"
InGst == status = "running" /\ frames # <<>> /\ Top.fn = "get_styled_text_token"

\* `tokens.push(token)` in the activation fs ends with
push_token(fs, token) ==
    [fs EXCEPT ![Len(fs)].tokens = Append(@, token)]

\* the activation fs ends with returns `token` to its caller, which pushes it
return_token(fs, token) ==
    push_token(SubSeq(fs, 1, Len(fs) - 1), token)

\* ----------------------------------------------------------------- actions

\* parse: `'\n' => result.push(self.parse_new_line())`
parse_new_line ==
    /\ InParse
    /\ offset < chars_len
    /\ chars[offset + 1] = NewLineCh
    /\ offset' = offset + 1
    /\ result' = Append(result, NewLine)
    /\ idle' = 0
    /\ UNCHANGED <<chars, stack, frames, status, closed>>

\* parse: `_ => panic!("Unexpected token {}.", ch)`
parse_unexpected_token ==
    /\ InParse
    /\ offset < chars_len
    /\ chars[offset + 1] \notin {Hash, NewLineCh}
    /\ status' = "panic: Unexpected token"
    /\ UNCHANGED <<chars, offset, stack, result, frames, closed, idle>>

\* a Header without tokens in place of the Paragraph
exhausted_token_header == Header("One", <<>>)

\* parse_header_or_text: `return MarkdownToken::Paragraph(vec![])` when the
\* input ends inside the `#` run
exhausted_token == Paragraph(<<>>)

\* parse: `'#' => result.push(self.parse_header_or_text())`, up to the call
\* of parse_text_tokens
parse_header_or_text ==
    /\ InParse
    /\ offset < chars_len
    /\ chars[offset + 1] = Hash
    /\ LET header_ch_count == count_run(chars, offset, Hash, chars_len)
           after == offset + header_ch_count
       IN IF after = chars_len
          THEN /\ offset' = after
               /\ result' = Append(result, exhausted_token)
               /\ UNCHANGED <<frames, status>>
          ELSE IF chars[after + 1] = Space
          THEN /\ offset' = skip_separator(chars, after)
               /\ frames' = Append(frames, PttFrame(header_level(header_ch_count)))
               /\ UNCHANGED <<result, status>>
          ELSE /\ offset' = after
               /\ status' = "panic: not yet implemented"
               /\ UNCHANGED <<result, frames>>
    /\ idle' = 0
    /\ UNCHANGED <<chars, stack, closed>>

\* parse_text_tokens returns (end of input or `\n`); parse_header wraps the
\* tokens and parse pushes the Header
parse_text_tokens_return ==
    /\ InPtt
    /\ IF offset < chars_len THEN chars[offset + 1] = NewLineCh ELSE TRUE
    /\ result' = Append(result, Header(Top.level, Top.tokens))
    /\ frames' = SubSeq(frames, 1, Len(frames) - 1)
    /\ UNCHANGED <<chars, offset, stack, status, closed, idle>>

\* the marker pushed before the end-of-input check
get_styled_text_token_pushing_first ==
    LET spec_ch == chars[offset + 1]
        ch_count == count_run(chars, offset, spec_ch, 3)
    IN /\ offset' = offset + ch_count
       /\ idle' = 0
       /\ stack' = Append(stack, run_of(spec_ch, ch_count))
       /\ IF offset + ch_count = chars_len
          THEN frames' = push_token(frames, Text(<<>>))
          ELSE frames' = Append(frames, GstFrame(spec_ch))

\* get_styled_text_token from its entry to its scan loop: read the run,
\* return an empty Text at end of input, else push the marker
get_styled_text_token ==
    LET spec_ch == chars[offset + 1]
        ch_count == count_run(chars, offset, spec_ch, 3)
    IN /\ offset' = offset + ch_count
       /\ idle' = 0
       /\ IF offset + ch_count = chars_len
          THEN /\ frames' = push_token(frames, Text(<<>>))
               /\ UNCHANGED stack
          ELSE /\ stack' = Append(stack, run_of(spec_ch, ch_count))
               /\ frames' = Append(frames, GstFrame(spec_ch))

\* parse_text_tokens: `'*' | '`' => self.get_styled_text_token()`
parse_text_tokens_styled ==
    /\ InPtt
    /\ offset < chars_len
    /\ chars[offset + 1] \in {Star, Tick}
    /\ get_styled_text_token
    /\ UNCHANGED <<chars, result, status, closed>>

\* parse_text_tokens: `_ => self.parse_text()`
parse_text_tokens_text ==
    /\ InPtt
    /\ offset < chars_len
    /\ chars[offset + 1] \notin {Star, Tick, NewLineCh}
    /\ LET r == parse_text(chars, offset)
       IN /\ offset' = r.offset
          /\ frames' = push_token(frames, r.token)
          /\ idle' = IF r.offset > offset THEN 0 ELSE idle + 1
    /\ UNCHANGED <<chars, stack, result, status, closed>>

\* the cursor advanced by the length of all the open markers
close_advance_whole_stack(stk) == Len(stack_str(stk))

\* get_styled_text_token: `self.offset += last.len()` on a close
close_advance(stk) == Len(stk[Len(stk)])

\* the scan loop of get_styled_text_token: the run at the cursor closes the
\* style of this activation
get_styled_text_token_close ==
    /\ InGst
    /\ offset < chars_len
    /\ chars[offset + 1] = Top.spec_ch
    /\ stack # <<>>
    /\ is_styled_text_token_closure(chars, offset, stack)
    /\ LET last == stack[Len(stack)]
           token == compact_text_token(last, Top.tokens)
       IN /\ offset' = offset + close_advance(stack)
          /\ closed' = Append(closed, [marker |-> last, from |-> offset,
                                       depth |-> Len(stack)])
          /\ stack' = SubSeq(stack, 1, Len(stack) - 1)
          /\ IF token.k = "Invalid"
             THEN /\ status' = "panic: Invalid Special Character"
                  /\ UNCHANGED frames
             ELSE /\ frames' = return_token(frames, token)
                  /\ UNCHANGED status
    /\ idle' = 0
    /\ UNCHANGED <<chars, result>>

\* the scan loop of get_styled_text_token: a run that does not close this
\* activation's style opens a nested one
get_styled_text_token_nested ==
    /\ InGst
    /\ offset < chars_len
    /\ IF chars[offset + 1] = Top.spec_ch
       THEN ~(stack # <<>> /\ is_styled_text_token_closure(chars, offset, stack))
       ELSE chars[offset + 1] \in {Star, Tick}
    /\ get_styled_text_token
    /\ UNCHANGED <<chars, result, status, closed>>

\* the scan loop of get_styled_text_token: `_ => tokens.push(self.parse_text())`
\* (a `\n` is not a special character here: parse_text returns an empty Text
\* and the cursor stays)
get_styled_text_token_text ==
    /\ InGst
    /\ offset < chars_len
    /\ chars[offset + 1] \notin {Star, Tick}
    /\ idle < MaxIdle
    /\ LET r == parse_text(chars, offset)
       IN /\ offset' = r.offset
          /\ frames' = push_token(frames, r.token)
          /\ idle' = IF r.offset > offset THEN 0 ELSE idle + 1
    /\ UNCHANGED <<chars, stack, result, status, closed>>

\* get_styled_text_token_end dropping the children instead of wrapping them
get_styled_text_token_end_unwrapped ==
    /\ InGst
    /\ offset = chars_len
    /\ stack' = SubSeq(stack, 1, Len(stack) - 1)
    /\ frames' = return_token(frames, Text(<<>>))
    /\ UNCHANGED <<chars, offset, result, status, closed, idle>>

\* get_styled_text_token after its scan loop (end of input)
get_styled_text_token_end ==
    /\ InGst
    /\ offset = chars_len
    /\ IF stack # <<>>
       THEN LET token == compact_text_token(stack[Len(stack)], Top.tokens)
            IN /\ stack' = SubSeq(stack, 1, Len(stack) - 1)
               /\ IF token.k = "Invalid"
                  THEN /\ status' = "panic: Invalid Special Character"
                       /\ UNCHANGED frames
                  ELSE /\ frames' = return_token(frames, token)
                       /\ UNCHANGED status
       ELSE /\ frames' = return_token(frames, Text(<<>>))
            /\ UNCHANGED <<stack, status>>
    /\ UNCHANGED <<chars, offset, result, closed, idle>>

\* parse: the loop ends and `result` is returned
parse ==
    /\ InParse
    /\ offset >= chars_len
    /\ status' = "returned"
    /\ UNCHANGED <<chars, offset, stack, result, frames, closed, idle>>

Next ==
    \/ parse_new_line
    \/ parse_unexpected_token
    \/ parse_header_or_text
    \/ parse_text_tokens_return
    \/ parse_text_tokens_styled
    \/ parse_text_tokens_text
    \/ get_styled_text_token_close
    \/ get_styled_text_token_nested
    \/ get_styled_text_token_text
    \/ get_styled_text_token_end
    \/ parse

Spec == Init /\ [][Next]_vars

\* ------------------------------------------------- what the claims speak of

Returned == status = "returned"
Panicked == status \notin {"running", "returned"}

IsPlain(c) == c \notin {Star, Tick, NewLineCh}
Kind(c) == IF c \in {Star, Tick} THEN c ELSE "plain"

\* the number of leading characters of b of kind k
RECURSIVE KindLen(_, _)
KindLen(b, k) ==
    IF b # <<>> /\ Kind(b[1]) = k THEN 1 + KindLen(Tail(b), k) ELSE 0

\* b cut into its maximal plain texts and maximal delimiter runs
RECURSIVE Chunks(_)
Chunks(b) ==
    IF b = <<>> THEN <<>>
    ELSE LET n == KindLen(b, Kind(b[1]))
         IN <<[kind |-> Kind(b[1]), s |-> SubSeq(b, 1, n)]>>
                \o Chunks(SubSeq(b, n + 1, Len(b)))

IsRun(chunk) == chunk.kind # "plain" /\ Len(chunk.s) <= 3
IsText(chunk) == chunk.kind = "plain"

\* the style a delimiter run names
StyleOf(run, children) ==
    IF run[1] = Tick THEN Code(children)
    ELSE CASE Len(run) = 1 -> Italic(children)
           [] Len(run) = 2 -> Bold(children)
           [] OTHER -> BoldItalic(children)

\* the number of leading `#` of cs
RECURSIVE Hashes(_)
Hashes(cs) == IF cs # <<>> /\ cs[1] = Hash THEN 1 + Hashes(Tail(cs)) ELSE 0

\* the input is one header line: a `#` run, a space, a body without `\n`
IsHeaderLine(cs) ==
    /\ Hashes(cs) >= 1
    /\ Hashes(cs) < Len(cs)
    /\ cs[Hashes(cs) + 1] = Space
    /\ \A i \in 1..Len(cs) : cs[i] # NewLineCh

BodyOf(cs) == SubSeq(cs, Hashes(cs) + 2, Len(cs))

\* parse has returned exactly one Header, with these inline tokens
ReturnedHeader(tokens) ==
    /\ Len(result) = 1
    /\ result[1].k = "Header"
    /\ result[1].tokens = tokens

\* ---------------------------------------------------------------------- C1

\* C1: for a header body `*X**Y***Z` (X, Y non-empty plain text, Z plain text)
\* parse returns the Header tokens [Italic([Text X, Bold([Text Y])]), Text Z]
\* (no Text Z when Z is empty), and the run of three `*` was consumed as two
\* closes: 2 characters closing the Bold, then 1 character closing the Italic.
C1_TripleRunClosesBoldThenItalic ==
    (Returned /\ IsHeaderLine(chars)) =>
        LET c == Chunks(BodyOf(chars))
        IN (/\ Len(c) \in {5, 6}
            /\ c[1].s = <<Star>> /\ IsText(c[2])
            /\ c[3].s = <<Star, Star>> /\ IsText(c[4])
            /\ c[5].s = <<Star, Star, Star>>) =>
               LET at == Hashes(chars) + 1 + 1 + Len(c[2].s) + 2 + Len(c[4].s)
               IN /\ ReturnedHeader(
                        <<Italic(<<Text(c[2].s), Bold(<<Text(c[4].s)>>)>>)>>
                            \o (IF Len(c) = 6 THEN <<Text(c[6].s)>> ELSE <<>>))
                  /\ closed = <<[marker |-> <<Star, Star>>, from |-> at, depth |-> 2],
                                [marker |-> <<Star>>, from |-> at + 2, depth |-> 1]>>
                  /\ stack = <<>>

C1_Witness ==
    /\ Returned
    /\ chars = <<Hash, Space, Star, "a", Star, Star, "b", Space, Star, Star, Star, Space, "c">>
    /\ Len(closed) = 2
    /\ result[1].tokens[1].k = "Italic"

\* ---------------------------------------------------------------------- C2

\* the answer of SiblingTokens for a body that is not of the family
NoMatch == <<[k |-> "NoMatch", s |-> <<>>, c |-> <<>>]>>

\* the tokens of a body of plain texts and styled segments r T r, any two
\* styled segments separated by plain text; NoMatch for any other body
RECURSIVE SiblingTokens(_)
SiblingTokens(c) ==
    IF c = <<>> THEN <<>>
    ELSE IF IsText(c[1])
    THEN LET rest == SiblingTokens(Tail(c))
         IN IF rest = NoMatch THEN rest ELSE <<Text(c[1].s)>> \o rest
    ELSE IF /\ Len(c) >= 3
            /\ IsRun(c[1]) /\ IsText(c[2]) /\ c[3] = c[1]
    THEN LET rest == SiblingTokens(SubSeq(c, 4, Len(c)))
         IN IF rest = NoMatch THEN rest
            ELSE <<StyleOf(c[1].s, <<Text(c[2].s)>>)>> \o rest
    ELSE NoMatch

\* C2: for a header body made of plain texts and styled segments r T r (r a run
\* of 1..3 `*` or backticks, T non-empty plain text, styled segments separated
\* by plain text) parse returns one token per segment in input order: Text for
\* a plain segment, Italic / Bold / BoldItalic / Code holding the one child
\* Text T for a styled one; no styled node is nested in another.
C2_StyledSegmentsAreSiblings ==
    (Returned /\ IsHeaderLine(chars)) =>
        LET expected == SiblingTokens(Chunks(BodyOf(chars)))
        IN expected # NoMatch => ReturnedHeader(expected)

C2_Witness ==
    /\ Returned
    /\ chars = <<Hash, Hash, Space, Star, Star, "a", Star, Star, Space,
                 Tick, "a", Tick>>
    /\ ReturnedHeader(<<Bold(<<Text(<<"a">>)>>), Text(<<Space>>), Code(<<Text(<<"a">>)>>)>>)

\* ---------------------------------------------------------------------- C3

\* C3: for an outer run r1 and an inner run r2 that differ in character or in
\* length, the body r1 A r2 B r2 C r1 (A, B, C non-empty plain text) yields the
\* single token Outer([Text A, Inner([Text B]), Text C]).
C3_InnerStyleIsChildOfOuter ==
    (Returned /\ IsHeaderLine(chars)) =>
        LET c == Chunks(BodyOf(chars))
        IN (/\ Len(c) = 7
            /\ IsRun(c[1]) /\ IsText(c[2]) /\ IsRun(c[3]) /\ IsText(c[4])
            /\ c[5] = c[3] /\ IsText(c[6]) /\ c[7] = c[1]
            /\ c[3] # c[1]) =>
               ReturnedHeader(
                   <<StyleOf(c[1].s,
                       <<Text(c[2].s), StyleOf(c[3].s, <<Text(c[4].s)>>), Text(c[6].s)>>)>>)

C3_Witness ==
    /\ Returned
    /\ chars = <<Hash, Space, Star, Star, "a", Star, "a", Star, "a", Star, Star>>
    /\ ReturnedHeader(
           <<Bold(<<Text(<<"a">>), Italic(<<Text(<<"a">>)>>), Text(<<"a">>)>>)>>)

\* ---------------------------------------------------------------------- C4

\* C4: if a header line reaches a `\n` while a style is still open, the open
\* marker is popped, the children accumulated so far are wrapped in that
\* marker's style node and returned to the enclosing token list, and no error
\* is raised.
C4_NewlineClosesOpenStyle ==
    [][(InGst /\ offset < chars_len /\ chars[offset + 1] = NewLineCh) =>
          /\ stack' = SubSeq(stack, 1, Len(stack) - 1)
          /\ frames' = return_token(frames, StyleOf(stack[Len(stack)], Top.tokens))
          /\ ~Panicked']_vars

\* ---------------------------------------------------------------------- C5

C6_ParseNeverAborts == ~Panicked

\* ---------------------------------------------------------------------- C7

\* the length of the line cs starts with
RECURSIVE LineLen(_)
LineLen(cs) == IF cs # <<>> /\ cs[1] # NewLineCh THEN 1 + LineLen(Tail(cs)) ELSE 0

\* the bodies of the header lines of cs, in order
RECURSIVE HeaderBodies(_)
HeaderBodies(cs) ==
    IF cs = <<>> THEN <<>>
    ELSE IF cs[1] = NewLineCh THEN HeaderBodies(Tail(cs))
    ELSE LET n == LineLen(cs)
             line == SubSeq(cs, 1, n)
             k == Hashes(line)
         IN (IF k >= 1 /\ k < n /\ line[k + 1] = Space
             THEN <<SubSeq(line, k + 2, n)>> ELSE <<>>)
                \o HeaderBodies(SubSeq(cs, n + 1, Len(cs)))

\* the strings of the Text leaves of a token sequence, concatenated in order
RECURSIVE Leaves(_)
Leaves(tokens) ==
    IF tokens = <<>> THEN <<>>
    ELSE (IF tokens[1].k = "Text" THEN tokens[1].s ELSE Leaves(tokens[1].c))
            \o Leaves(Tail(tokens))

IsNotDelimiter(c) == c \notin {Star, Tick}
IsHeaderToken(t) == t.k = "Header"

\* C7: the Text leaves of every Header, concatenated in order, are the body of
\* its header line with every `*` and backtick removed: each plain character
\* is in exactly one leaf, none dropped, duplicated or reordered.
C7_TextLeavesAreTheBodyWithoutDelimiters ==
    LET hs == SelectSeq(result, IsHeaderToken)
        bs == HeaderBodies(chars)
    IN /\ Len(hs) <= Len(bs)
       /\ Returned => Len(hs) = Len(bs)
       /\ \A i \in 1..Len(hs) :
            Leaves(hs[i].tokens) = SelectSeq(bs[i], IsNotDelimiter)

C7_Witness ==
    /\ Returned
    /\ chars = <<Hash, Space, Star, Star, "a", Tick, "b", Space, Tick, " ", "c", Star, Star>>
    /\ Leaves(result[1].tokens) = <<"a", "b", Space, " ", "c">>
    /\ result[1].tokens[1].c[2].k = "Code"

\* ---------------------------------------------------------------------- C8

\* C8: for a `#` run, one space and a non-empty body without `*`, backtick or
\* `\n`, parse returns exactly one Header whose tokens are exactly one Text
\* equal to the body; only the first space after the run is the separator.
C8_PlainBodyIsOneText ==
    (/\ Returned
     /\ IsHeaderLine(chars)
     /\ BodyOf(chars) # <<>>
     /\ \A i \in 1..Len(BodyOf(chars)) : IsPlain(BodyOf(chars)[i])) =>
        ReturnedHeader(<<Text(BodyOf(chars))>>)

C8_Witness ==
    /\ Returned
    /\ chars = <<Hash, Hash, Space, Space, "a">>
    /\ ReturnedHeader(<<Text(<<Space, "a">>)>>)

\* ---------------------------------------------------------------------- C9

\* the block constructs of cs, in order: one per `\n`, one per line
RECURSIVE Constructs(_)
Constructs(cs) ==
    IF cs = <<>> THEN <<>>
    ELSE IF cs[1] = NewLineCh THEN <<"NewLine">> \o Constructs(Tail(cs))
    ELSE LET n == LineLen(cs)
             k == Hashes(SubSeq(cs, 1, n))
         IN <<IF k >= 1 /\ k < n /\ cs[k + 1] = Space THEN "Header"
              ELSE IF k = n /\ n = Len(cs) THEN "Paragraph"
              ELSE "Other">>
                \o Constructs(SubSeq(cs, n + 1, Len(cs)))

IsNewLineCh(c) == c = NewLineCh
IsNewLineToken(t) == t.k = "NewLine"

\* C9: when parse returns, the NewLine tokens are as many as the `\n` of the
\* input, and the block tokens are the constructs of the input in input order
\* (k consecutive `\n` give k consecutive NewLine tokens).
C9_OneNewLineTokenPerNewline ==
    Returned =>
        /\ Len(SelectSeq(result, IsNewLineToken)) = Len(SelectSeq(chars, IsNewLineCh))
        /\ [i \in 1..Len(result) |-> result[i].k] = Constructs(chars)

C9_Witness ==
    /\ Returned
    /\ chars = <<Hash, Hash, Space, Star, "b", Star, NewLineCh, NewLineCh,
                 Hash, Space, "c", NewLineCh>>
    /\ [i \in 1..Len(result) |-> result[i].k]
         = <<"Header", "NewLine", "NewLine", "Header", "NewLine">>

\* --------------------------------------------------------------------- C10

LevelOf(k) ==
    IF k >= 7 THEN "Six" ELSE <<"One", "Two", "Three", "Four", "Five", "Six">>[k]

\* C10: a run of k `#` followed by a space produces a Header of level k for
\* 1 <= k <= 6 and of level Six for k >= 7; no count makes header parsing fail.
C10_HeaderLevelIsClampedCount ==
    LET k == Hashes(chars)
    IN (k >= 1 /\ k < Len(chars) /\ chars[k + 1] = Space) =>
          /\ result = <<>> => ~Panicked
          /\ result # <<>> => result[1].k = "Header" /\ result[1].level = LevelOf(k)

C10_Witness ==
    /\ Returned
    /\ Hashes(chars) = 8
    /\ ReturnedHeader(<<Text(<<"a">>)>>)
    /\ result[1].level = "Six"

\* --------------------------------------------------------------------- C11

\* the input ends with a bare `#` run: its last line is one or more `#`
EndsWithBareRun(cs) ==
    /\ cs # <<>>
    /\ cs[Len(cs)] = Hash
    /\ \E n \in 1..Len(cs) :
          /\ \A i \in (Len(cs) - n + 1)..Len(cs) : cs[i] = Hash
          /\ n = Len(cs) \/ cs[Len(cs) - n] = NewLineCh

\* C11: if the input ends with a bare `#` run, parse does not fail on it: it
\* emits an empty-bodied Paragraph for that run and returns with the cursor at
\* end-of-input; an input that is nothing but a `#` run never fails at all.
C11_BareHashRunIsEmptyParagraph ==
    /\ (Returned /\ EndsWithBareRun(chars)) =>
          /\ result # <<>>
          /\ result[Len(result)] = Paragraph(<<>>)
          /\ offset = chars_len
    /\ (chars # <<>> /\ \A i \in 1..Len(chars) : chars[i] = Hash) =>
          /\ ~Panicked
          /\ Returned => result = <<Paragraph(<<>>)>>

C11_Witness ==
    /\ Returned
    /\ chars = <<Hash, Space, "a", NewLineCh, Hash, Hash>>
    /\ result[3] = Paragraph(<<>>)
    /\ offset = chars_len

\* --------------------------------------------------------------------- C12

\* a step that runs one iteration of a scan loop (of parse, parse_text_tokens
\* or get_styled_text_token): the parser is running before and after it, and
\* no invocation returns in it to its caller without consuming anything
ScanLoopIteration ==
    /\ status = "running"
    /\ status' = "running"
    /\ offset < chars_len
    /\ ~(InPtt /\ chars[offset + 1] = NewLineCh)

\* C12: parse terminates on every finite input: every iteration of the scan
\* loops of parse, parse_text_tokens and get_styled_text_token strictly
\* advances the cursor, so no iteration appends a token without consuming a
\* character.
C12_EveryIterationAdvancesTheCursor ==
    [][ScanLoopIteration => offset' > offset]_vars

\* --------------------------------------------------------------------- C13

\* the invocations of get_styled_text_token in progress, outermost first
GstFrames == SelectSeq(frames, LAMBDA f : f.fn = "get_styled_text_token")

\* every invocation of get_styled_text_token in progress holds exactly one
\* marker, its own, at its depth of the stack
OneMarkerPerInvocation ==
    /\ Len(stack) = Len(GstFrames)
    /\ \A i \in 1..Len(stack) :
          /\ stack[i] # <<>>
          /\ stack[i][1] = GstFrames[i].spec_ch

\* a step leaves the stack alone, or pushes one marker, or pops the top one
TopOnly ==
    \/ stack' = stack
    \/ stack' = SubSeq(stack, 1, Len(stack) - 1) /\ stack # <<>>
    \/ stack = SubSeq(stack', 1, Len(stack') - 1) /\ stack' # <<>>

\* C13: the delimiter stack is balanced: an invocation of
\* get_styled_text_token pushes at most one marker and pops exactly that one,
\* so when it returns the stack is as it found it (what lies beneath its marker
\* is never touched, and the stack is as deep as there are invocations in
\* progress); the stack is empty whenever control is in the block loop of
\* parse, in parse_text_tokens (so at the start of every header's inline
\* parse) and when parse returns.
C13_StackIsBalanced ==
    /\ [](/\ OneMarkerPerInvocation
          /\ InParse => stack = <<>>
          /\ InPtt => stack = <<>>
          /\ Returned => stack = <<>>)
    /\ [][/\ TopOnly
          /\ Len(GstFrames') < Len(GstFrames) =>
                stack' = SubSeq(stack, 1, Len(GstFrames'))
          /\ Len(GstFrames') > Len(GstFrames) =>
                SubSeq(stack', 1, Len(GstFrames)) = stack]_vars

C13_Witness ==
    /\ Returned
    /\ stack = <<>>
    /\ chars = <<Hash, Space, Tick, "a", Star, "a", Star, "a", Tick>>
    /\ Len(closed) = 2
    /\ closed[1].depth = 2
    /\ closed[2].depth = 1

\* --------------------------------------------------------------------- C14

\* the step recognizes the run at the cursor as a close
RunRecognizedAsClose == Len(closed') = Len(closed) + 1

\* C14: whenever a run is recognized as a close, exactly one marker is popped
\* and it is the top of the stack, the marker of the innermost invocation; the
\* popped marker is made of the character of the closing run; the cursor
\* advances by exactly the marker's length, over characters of that run only,
\* so what is left of the run is for the enclosing invocation; only the
\* innermost invocation returns, so styles never close out of order.
C14_CloseTakesTheTopMarkerOnly ==
    [][RunRecognizedAsClose =>
          LET last == stack[Len(stack)]
              ch == chars[offset + 1]
          IN /\ stack # <<>>
             /\ stack' = SubSeq(stack, 1, Len(stack) - 1)
             /\ closed'[Len(closed')].marker = last
             /\ closed'[Len(closed')].depth = Len(stack)
             /\ \A i \in 1..Len(last) : last[i] = ch
             /\ ch = Top.spec_ch
             /\ offset' = offset + Len(last)
             /\ offset' <= chars_len
             /\ \A i \in (offset + 1)..offset' : chars[i] = ch
             /\ Len(last) <= count_run(chars, offset, ch, chars_len)
             /\ ~Panicked' => frames' =
                   return_token(frames, StyleOf(last, Top.tokens))]_vars

C14_Witness ==
    /\ chars = <<Hash, Space, Tick, "a", Star, Star, "a", Star, Star, "a", Tick>>
    /\ Len(closed) = 1
    /\ closed[1] = [marker |-> <<Star, Star>>, from |-> 7, depth |-> 2]
    /\ stack = <<<<Tick>>>>
    /\ offset = 9

\* --------------------------------------------------------------------- C15

\* the two most recently opened markers still open are `*` and then `**`, and
\* the scan loop of get_styled_text_token is at a run of exactly three `*`
TripleRunOverItalicAndBold ==
    /\ InGst
    /\ status = "running"
    /\ Len(stack) >= 2
    /\ stack[Len(stack) - 1] = <<Star>>
    /\ stack[Len(stack)] = <<Star, Star>>
    /\ offset < chars_len
    /\ chars[offset + 1] = Star
    /\ count_run(chars, offset, Star, chars_len) = 3

\* C15: the multi-level close does not depend on what is open beneath the
\* markers it closes: whenever the two most recently opened markers still open
\* are `*` and then `**` and a run of exactly three `*` follows, the run closes
\* the Bold (its first two characters pop `**`) and is left at the Italic's
\* close (one `*` at the cursor, `*` on top), also when a further style is
\* open around them.
C15_TripleRunClosesWhateverIsBeneath ==
    [][TripleRunOverItalicAndBold =>
          /\ RunRecognizedAsClose
          /\ stack' = SubSeq(stack, 1, Len(stack) - 1)
          /\ offset' = offset + 2
          /\ is_styled_text_token_closure(chars, offset', stack')]_vars

\* --------------------------------------------------------------------- C16

\* the step runs no loop body: an invocation returns to its caller, or parse
\* returns
ReturnStep == Len(frames') < Len(frames) \/ status' = "returned"

\* C16: in every reachable state 0 <= offset <= chars_len, and offset never
\* decreases; the loop bodies, which read chars[offset], run with
\* offset < chars_len only: once the cursor is at end-of-input every step is a
\* return and the cursor stays; this holds after a close advanced the cursor
\* too.
C16_CursorStaysInBounds ==
    /\ [](/\ 0 <= offset
          /\ offset <= chars_len
          /\ \A i \in 1..Len(closed) :
                closed[i].from + Len(closed[i].marker) <= chars_len)
    /\ [][/\ offset' >= offset
          /\ offset >= chars_len => (ReturnStep /\ offset' = offset)
          /\ ~ReturnStep => offset < chars_len]_vars

C16_Witness ==
    /\ Returned
    /\ chars = <<Hash, Space, Star, "a", Star, Star, "a", Star, Star, Star>>
    /\ Len(closed) = 2
    /\ closed[2].from + Len(closed[2].marker) = chars_len
    /\ offset = chars_len

\* --------------------------------------------------------------------- C17

\* a run of one to three identical characters, all `*` or all backtick
IsMarker(m) ==
    /\ Len(m) \in 1..3
    /\ m[1] \in {Star, Tick}
    /\ \A i \in 1..Len(m) : m[i] = m[1]

\* C17: every marker ever on the stack is a run of one to three identical
\* characters, all `*` or all backtick; so compact_text_token is never called
\* with an empty stack (whenever an invocation of get_styled_text_token is in
\* progress the stack holds a marker, also when its loop ends at end-of-input,
\* so the fallback that returns an empty Text for an empty stack is never
\* taken), and the "Invalid Special Character" panic never happens.
C17_MarkersAreValidRuns ==
    /\ \A i \in 1..Len(stack) : IsMarker(stack[i])
    /\ \A i \in 1..Len(closed) : IsMarker(closed[i].marker)
    /\ InGst => stack # <<>>
    /\ status # "panic: Invalid Special Character"

C17_Witness ==
    /\ InGst
    /\ offset = chars_len
    /\ stack = <<<<Tick, Tick, Tick>>, <<Star, Star>>>>
    /\ chars = <<Hash, Space, Tick, Tick, Tick, "a", Star, Star, "a">>

====
